---- MODULE Spec2Model ----
(***************************************************************************)
(* excelshifts: the assignment pipeline (pipeline.py) over the rule        *)
(* catalogue (model/constraints.py).                                        *)
(*                                                                         *)
(* The CP-SAT solver is an external library.  It is modelled by its        *)
(* contract: a solve of a model under a set of asserted enable literals is  *)
(* OPTIMAL or FEASIBLE only if some 0/1 valuation of the decision           *)
(* variables satisfies the constraints of every asserted rule (and the      *)
(* unguarded constraints), INFEASIBLE only if none does, and may end        *)
(* UNKNOWN when the time limit strikes; an infeasibility core is any list   *)
(* of asserted literals that is sufficient for infeasibility.  A literal    *)
(* that guards no constraint takes part in no conflict and is in no core.   *)
(***************************************************************************)
EXTENDS Integers, Sequences, FiniteSets, TLC

(* ---------------- bounds of the explored inputs ---------------- *)
MaxRules == 3
MaxPresets == 2

\* residents of the rosters rule.targets is called on
MaxRoster == 2

\* literals of the core lists _core_rule_ids is called on
MaxCore == 3

\* days of the calendars, and shifts of the assignments, the counting rules are applied to
MaxDays == 4
MaxShifts == 3

(* ---------------- the instance's grid ---------------- *)
\* len(instance.residents), len(instance.days): the grid of scenario S4,
\* one resident and one day, under every v_positions and presets over it
NumResidents == 1
NumDays == 1

(* ---------------- state.py ---------------- *)
NumShiftTypes == 4
ShiftType == 0 .. (NumShiftTypes - 1)
ShiftName == [k \in ShiftType |-> <<"R", "G", "T", "M">>[k + 1]]

Residents == 0 .. (NumResidents - 1)
Days == 0 .. (NumDays - 1)
\* days are numbered 1..NumDays here, so no day number drops
end_of_month == NumDays

(* Optional[T] *)
None == << >>
Some(x) == <<x>>

(* ---------------- model/variables.py ---------------- *)
\* the keys of the decision variables; a valuation is the set of keys at 1
create_shifts == Residents \X Days \X ShiftType
Valuations == SUBSET create_shifts

(* ---------------- model/constraints.py: rule instances ---------------- *)
AllTypes == {"R", "G", "T", "M"}

\* params of the target filter: include_ranks, exclude_ranks, include_names, exclude_names
Filter(ir, er, inn, en) ==
    [include_ranks |-> ir, exclude_ranks |-> er, include_names |-> inn, exclude_names |-> en]
NoFilter == Filter({}, {}, {}, {})

OneShiftPerDay == [cls |-> "OneShiftPerDay", types |-> {}, filter |-> NoFilter]
RestrictedDayOff == [cls |-> "RestrictedDayOff", types |-> {}, filter |-> NoFilter]
EnforcePresets == [cls |-> "EnforcePresets", types |-> {}, filter |-> NoFilter]
TargetsDoAtLeastOfType(types) ==
    [cls |-> "TargetsDoAtLeastOfType", types |-> types, filter |-> NoFilter]
\* TargetsDoAtLeastOfType(params={"types": ..., **filter})
TargetsDoAtLeastOfTypeFor(types, f) ==
    [cls |-> "TargetsDoAtLeastOfType", types |-> types, filter |-> f]

\* the rule instances a policy is drawn from
Catalogue ==
    { OneShiftPerDay, RestrictedDayOff, EnforcePresets,
      TargetsDoAtLeastOfType(AllTypes) }

ID(cls) ==
    CASE cls = "OneShiftPerDay" -> "one_shift_per_day"
      [] cls = "RestrictedDayOff" -> "restricted_day_off"
      [] cls = "EnforcePresets" -> "enforce_presets"
      [] cls = "TargetsDoAtLeastOfType" -> "targets_do_at_least_of_type"

PRIORITY(cls) ==
    CASE cls = "OneShiftPerDay" -> 0
      [] cls = "RestrictedDayOff" -> 0
      [] cls = "EnforcePresets" -> 0
      [] cls = "TargetsDoAtLeastOfType" -> 3

rule_id(r) == ID(r.cls)
eff_priority(r) == PRIORITY(r.cls)

VARIABLES
    rules,          \* the policy: a list of rule instances
    v_positions,    \* instance.v_positions
    presets,        \* instance.presets
    pc,             \* position in assign / validate
    active_ids,     \* assign: Optional set of enabled rule ids
    relaxed,        \* assign: rules disabled so far, in order
    first_core,     \* assign: Optional first core
    attempt,        \* assign: attempt counter
    status,         \* status of the last solve of the attempt loop / of validate
    status_t,       \* status of the last trim probe / shrink trial
    core_rids,      \* rule ids of the core just read (dropped when the loop is left)
    relaxed_sorted, \* trim pass: probe order
    pos,            \* trim pass / MUS shrink: index of the next element
    mus,            \* _shrink_core_to_mus: working list
    definite,       \* history: every solve so far ended with a definite status
    result,         \* Optional result record
    residents,      \* instance.residents: a list of [name, rank]
    external_rotations, \* instance.external_rotations: resident indices
    call,           \* Optional arguments of a helper called on its own
    ret,            \* Optional value the helper returned
    asked           \* history: Optional map from the rule sets assign has solved to the status
                    \* answered, kept when the solver's answer is a function of the set

\* the variables of assign and validate
frame == << rules, v_positions, presets, pc, active_ids, relaxed, first_core,
            attempt, status, status_t, core_rids, relaxed_sorted,
            pos, mus, definite, result >>

\* the other fields of the instance, and the helper's call
aux == << residents, external_rotations, call, ret >>

vars == << frame, aux, asked >>

(* ---------------- sequences ---------------- *)
Range(s) == { s[n] : n \in 1 .. Len(s) }
IsInjective(s) == \A a, b \in 1 .. Len(s) : s[a] = s[b] => a = b
SeqsUpTo(S, n) == UNION { [1 .. m -> S] : m \in 0 .. n }
\* list.index
IndexOf(s, x) == CHOOSE n \in 1 .. Len(s) : s[n] = x /\ \A m \in 1 .. (n - 1) : s[m] # x
SelectIn(s, S) == SelectSeq(s, LAMBDA x : x \in S)

(* ---------------- rule semantics: the constraints a rule posts ---------------- *)
\* OneShiftPerDay with two shifts a day allowed
HoldsOneShiftPerDay_two(X) ==
    \A i \in Residents, j \in Days :
        Cardinality({ k \in ShiftType : <<i, j, k>> \in X }) <= 2

\* OneShiftPerDay.apply
HoldsOneShiftPerDay(X) ==
    \A i \in Residents, j \in Days :
        Cardinality({ k \in ShiftType : <<i, j, k>> \in X }) <= 1

\* RestrictedDayOff with only the first shift type blocked
HoldsRestrictedDayOff_first_type(X) ==
    \A p \in v_positions : <<p[1], p[2], 0>> \notin X

\* RestrictedDayOff.apply
HoldsRestrictedDayOff(X) ==
    \A p \in v_positions : \A k \in ShiftType : <<p[1], p[2], k>> \notin X

\* EnforcePresets.apply
HoldsEnforcePresets(X) ==
    \A p \in presets : p \in X

\* BaseRule.targets, lines 84-99: the names of the non-empty filters, in order
active_filters(f) ==
    (IF f.include_ranks # {} THEN <<"include_ranks">> ELSE << >>)
    \o (IF f.exclude_ranks # {} THEN <<"exclude_ranks">> ELSE << >>)
    \o (IF f.include_names # {} THEN <<"include_names">> ELSE << >>)
    \o (IF f.exclude_names # {} THEN <<"exclude_names">> ELSE << >>)

\* every pair of filters passes
targets_raises_on_three(f) ==
    Len(active_filters(f)) > 2

\* BaseRule.targets, lines 101-112: the two ValueErrors
targets_raises(f) ==
    LET active == active_filters(f)
    IN \/ Len(active) > 2
       \/ /\ Len(active) = 2
          /\ Range(active) \notin { {"include_ranks", "exclude_names"},
                                    {"exclude_ranks", "include_names"} }

\* BaseRule.targets, lines 117-158: the predicate ok(i, r) of the active filters
ok(f, r) ==
    LET active == active_filters(f)
    IN CASE active = << >> -> TRUE
         [] active = <<"include_ranks">> -> r.rank \in f.include_ranks
         [] active = <<"exclude_ranks">> -> r.rank \notin f.exclude_ranks
         [] active = <<"include_names">> -> r.name \in f.include_names
         [] active = <<"exclude_names">> -> r.name \notin f.exclude_names
         [] Range(active) = {"include_ranks", "exclude_names"} ->
               r.rank \in f.include_ranks /\ r.name \notin f.exclude_names
         [] OTHER ->
               r.rank \notin f.exclude_ranks \/ r.name \in f.include_names

\* targets without the external_rotations test
targets_with_external(r) ==
    { i \in 0 .. (Len(residents) - 1) : ok(r.filter, residents[i + 1]) }

\* BaseRule.targets, lines 160-165: the indices yielded (when nothing is raised)
targets(r) ==
    { i \in 0 .. (Len(residents) - 1) :
        i \notin external_rotations /\ ok(r.filter, residents[i + 1]) }

\* TargetsDoAtLeastOfType posting its constraint for every resident
HoldsTargetsDoAtLeastOfType_all_residents(r, X) ==
    LET k_list == { k \in ShiftType : ShiftName[k] \in r.types }
    IN \A i \in Residents : \A k \in k_list :
          LET lits == { j \in Days : j < end_of_month }
          IN lits # {} => Cardinality({ j \in lits : <<i, j, k>> \in X }) >= 1

\* TargetsDoAtLeastOfType.apply
HoldsTargetsDoAtLeastOfType(r, X) ==
    LET k_list == { k \in ShiftType : ShiftName[k] \in r.types }
    IN \A i \in targets(r) : \A k \in k_list :
          LET lits == { j \in Days : j < end_of_month }
          IN lits # {} => Cardinality({ j \in lits : <<i, j, k>> \in X }) >= 1

\* rule.apply: the constraints guarded by the rule's enable literal
apply(r, X) ==
    CASE r.cls = "OneShiftPerDay" -> HoldsOneShiftPerDay(X)
      [] r.cls = "RestrictedDayOff" -> HoldsRestrictedDayOff(X)
      [] r.cls = "EnforcePresets" -> HoldsEnforcePresets(X)
      [] r.cls = "TargetsDoAtLeastOfType" -> HoldsTargetsDoAtLeastOfType(r, X)

\* rule.apply reached a model.Add(...).OnlyEnforceIf(enable)
posts_constraints(r) ==
    CASE r.cls = "OneShiftPerDay" -> Residents \X Days # {}
      [] r.cls = "RestrictedDayOff" -> v_positions # {}
      [] r.cls = "EnforcePresets" -> presets # {}
      [] r.cls = "TargetsDoAtLeastOfType" ->
            /\ targets(r) # {}
            /\ { k \in ShiftType : ShiftName[k] \in r.types } # {}
            /\ { j \in Days : j < end_of_month } # {}

\* rule.apply raises ValueError: a bad 'types' param, or targets() raising
apply_raises(r) ==
    /\ r.cls = "TargetsDoAtLeastOfType"
    /\ r.types = {} \/ targets_raises(r.filter)

(* ---------------- apply_rules / build_model ---------------- *)
\* apply_rules raises when the apply of one of its rules does
apply_rules_raises(rs) == \E n \in 1 .. Len(rs) : apply_raises(rs[n])

\* enables[rule.rule_id] = enable: the keys of the dict, in insertion order
RECURSIVE Dedup(_)
Dedup(s) ==
    IF s = << >> THEN << >>
    ELSE LET front == Dedup(SubSeq(s, 1, Len(s) - 1))
             x == s[Len(s)]
         IN IF x \in Range(front) THEN front ELSE Append(front, x)

apply_rules(rs) == Dedup([n \in 1 .. Len(rs) |-> rule_id(rs[n])])

\* the rule instance whose enable literal the dict holds for rid: the last one
EnabledRule(rs, rid) ==
    rs[CHOOSE n \in 1 .. Len(rs) :
          rule_id(rs[n]) = rid /\ \A m \in (n + 1) .. Len(rs) : rule_id(rs[m]) # rid]

enables == apply_rules(rules)

\* rule_priority = {_rid(r): int(r.eff_priority) for r in rules}; .get(rid, 0)
rule_priority(rid) ==
    IF rid \in Range(enables) THEN eff_priority(EnabledRule(rules, rid)) ELSE 0

(* ---------------- pipeline.py helpers ---------------- *)
\* _assumptions with active_ids=None read as "no rule"
_assumptions_none_is_empty(active) ==
    IF active = None THEN << >> ELSE SelectIn(enables, active[1])

\* _assumptions: the asserted literals, in the order of the enables dict
_assumptions(active) ==
    IF active = None THEN enables ELSE SelectIn(enables, active[1])

\* _fix_presets without the k != k_star test
_fix_presets_all_zero(X) ==
    \A p \in presets :
        /\ p \in X
        /\ \A k \in ShiftType : <<p[1], p[2], k>> \notin X

\* _fix_presets: unguarded constraints of validate
_fix_presets(X) ==
    \A p \in presets :
        /\ p \in X
        /\ \A k \in ShiftType : k # p[3] => <<p[1], p[2], k>> \notin X

\* _extract_matrix without the break: the last shift type whose variable is 1
_extract_matrix_last(X) ==
    [i \in 1 .. NumResidents |->
        [j \in 1 .. NumDays |->
            LET on == { k \in ShiftType : <<i - 1, j - 1, k>> \in X }
            IN IF on = {} THEN ""
               ELSE ShiftName[CHOOSE k \in on : \A k2 \in on : k >= k2]]]

\* _extract_matrix: first shift type whose variable is 1, else ""
_extract_matrix(X) ==
    [i \in 1 .. NumResidents |->
        [j \in 1 .. NumDays |->
            LET on == { k \in ShiftType : <<i - 1, j - 1, k>> \in X }
            IN IF on = {} THEN ""
               ELSE ShiftName[CHOOSE k \in on : \A k2 \in on : k <= k2]]]

\* BaseRule.new_enable: model.NewBoolVar(f"enable_{rule_id}"); a variable is an
\* object with an identity and a Name() (None when Name() raises)
new_enable(rid) == [id |-> rid, name |-> Some("enable_" \o rid)]

\* the enables dict of assign / validate as its items, in insertion order
enables_items ==
    LET keys == enables
    IN [n \in 1 .. Len(keys) |-> [rid |-> keys[n], var |-> new_enable(keys[n])]]

\* model.get_bool_var_from_proto_index(idx) for each index of the core
get_bool_vars(core_idx) == [n \in 1 .. Len(core_idx) |-> new_enable(core_idx[n])]

\* lines 71-89: the rule id of one literal, or None
\* id_map is keyed by id(var), so the last item with that object wins;
\* the fallback scans the items in order and breaks at the first equal Name()
rid_of_lit(lit, items) ==
    LET same == { n \in 1 .. Len(items) : items[n].var.id = lit.id }
        named == { n \in 1 .. Len(items) :
                     /\ lit.name # None
                     /\ items[n].var.name # None
                     /\ items[n].var.name = lit.name }
    IN IF same # {}
       THEN Some(items[CHOOSE n \in same : \A m \in same : m <= n].rid)
       ELSE IF named # {}
            THEN Some(items[CHOOSE n \in named : \A m \in named : n <= m].rid)
            ELSE None

\* lines 72-89: rid_list, the mapped literals in input order
RECURSIVE rid_list(_, _)
rid_list(core_lits, items) ==
    IF core_lits = << >> THEN << >>
    ELSE LET front == rid_list(SubSeq(core_lits, 1, Len(core_lits) - 1), items)
             rid == rid_of_lit(core_lits[Len(core_lits)], items)
         IN IF rid # None THEN Append(front, rid[1]) ELSE front

_core_rule_ids_keeps_repeats(core_lits, items) == rid_list(core_lits, items)

\* _core_rule_ids: core literals -> rule ids, ordered, unique (lines 90-97)
_core_rule_ids(core_lits, items) == Dedup(rid_list(core_lits, items))

(* ---------------- the solver's contract ---------------- *)
\* valuations that satisfy the constraints of the asserted rules
Solutions(asserted, fixed) ==
    LET guarded == { EnabledRule(rules, rid) : rid \in asserted }
    IN { X \in Valuations :
           /\ fixed => _fix_presets(X)
           /\ \A r \in guarded : apply(r, X) }

Satisfiable(asserted, fixed) ==
    LET guarded == { EnabledRule(rules, rid) : rid \in asserted }
    IN \E X \in Valuations :
           /\ fixed => _fix_presets(X)
           /\ \A r \in guarded : apply(r, X)

\* an objective that counts covered cells instead of shift variables
ObjectiveValue_cells(X) == Cardinality({ <<c[1], c[2]>> : c \in X })

\* maximize_total_coverage
ObjectiveValue(X) == Cardinality(X)

OkStatus == {"OPTIMAL", "FEASIBLE"}

\* a solver that may report a satisfiable model INFEASIBLE
Solve_unsound(asserted, fixed) == {"OPTIMAL", "FEASIBLE", "INFEASIBLE", "UNKNOWN"}

\* solver.Solve
Solve(asserted, fixed) ==
    IF Satisfiable(asserted, fixed)
    THEN {"OPTIMAL", "FEASIBLE", "UNKNOWN"}
    ELSE {"INFEASIBLE", "UNKNOWN"}

\* status = solver.Solve(model) inside assign: any status Solve allows; a solver
\* whose answer is a function of the asserted rules repeats the answer it gave
Answers(asserted) ==
    IF asked # None /\ asserted \in DOMAIN asked[1]
    THEN { asked[1][asserted] }
    ELSE Solve(asserted, FALSE)

\* the answers given so far, with the one just given
Record(asserted, st) ==
    IF asked = None THEN None ELSE Some((asserted :> st) @@ asked[1])

\* a solver whose OPTIMAL is any solution
SolverValues_any_solution(asserted, st) == Solutions(asserted, FALSE)

\* the valuations a solve that ended with status st may hold
SolverValues(asserted, st) ==
    LET sols == Solutions(asserted, FALSE)
    IN IF st = "OPTIMAL"
       THEN { X \in sols : \A Y \in sols : ObjectiveValue(Y) <= ObjectiveValue(X) }
       ELSE sols

\* SufficientAssumptionsForInfeasibility: any list of asserted literals that
\* is sufficient for infeasibility, in any order
Orderings(S) == { c \in [1 .. Cardinality(S) -> S] : IsInjective(c) }

SufficientAssumptionsForInfeasibility(asserted, fixed) ==
    LET guarding == { rid \in asserted : posts_constraints(EnabledRule(rules, rid)) }
    IN UNION { Orderings(S) : S \in { T \in SUBSET guarding : ~Satisfiable(T, fixed) } }

(* ---------------- results ---------------- *)
AssignmentResult(matrix, objective, solver_status, unsat_core, relaxed_rules) ==
    [ op |-> "assign", matrix |-> matrix, objective |-> objective,
      solver_status |-> solver_status, unsat_core |-> unsat_core,
      relaxed_rules |-> relaxed_rules ]

ValidationResult(solver_status, unsat_core) ==
    [ op |-> "validate", matrix |-> None, objective |-> None,
      solver_status |-> solver_status, unsat_core |-> unsat_core,
      relaxed_rules |-> << >> ]

(* ---------------- initial states ---------------- *)
MaxFairRules == 2
Policies == SeqsUpTo(Catalogue, MaxRules)

Instances ==
    { inst \in [ v : SUBSET (Residents \X Days), p : SUBSET create_shifts ] :
        Cardinality(inst.p) <= MaxPresets }

\* "Two rule instances must not share a rule_id"
DistinctRuleIds(rs) ==
    \A a, b \in 1 .. Len(rs) : rule_id(rs[a]) = rule_id(rs[b]) => a = b

\* "Presets never collide"
PresetsCollide(ps) ==
    \E p, q \in ps : p[1] = q[1] /\ p[2] = q[2] /\ p[3] # q[3]

Start(entry) ==
    /\ pc = entry
    /\ active_ids = None
    /\ relaxed = << >>
    /\ first_core = None
    /\ attempt = 0
    /\ status = "NONE"
    /\ status_t = "NONE"
    /\ core_rids = << >>
    /\ relaxed_sorted = << >>
    /\ pos = 1
    /\ mus = << >>
    /\ definite = TRUE
    /\ result = None

\* the one resident of the grid; no external rotation
OneResident ==
    /\ residents = << [name |-> "a", rank |-> "R1"] >>
    /\ external_rotations = {}

NoCall == call = None /\ ret = None /\ asked = None

WellFormedInput ==
    /\ OneResident
    /\ NoCall
    /\ rules \in { rs \in Policies : DistinctRuleIds(rs) }
    /\ \E inst \in { x \in Instances : ~PresetsCollide(x.p) } :
          v_positions = inst.v /\ presets = inst.p

MalformedInput ==
    /\ OneResident
    /\ NoCall
    /\ \E rs \in Policies, inst \in Instances :
       /\ ~DistinctRuleIds(rs) \/ PresetsCollide(inst.p)
       /\ rules = rs
       /\ v_positions = inst.v
       /\ presets = inst.p

\* assign(instance, rules) on a well-formed input
Init == WellFormedInput /\ Start("assign")

\* assign on the policies of up to MaxFairRules rules, no vacation positions
InitFair == Init /\ Len(rules) <= MaxFairRules /\ v_positions = {}

\* assign with a solver whose answers are a function of the asserted rules
InitDeterministic ==
    /\ OneResident
    /\ call = None
    /\ ret = None
    /\ asked = Some(<< >>)
    /\ rules \in { rs \in Policies : DistinctRuleIds(rs) }
    /\ \E inst \in { x \in Instances : ~PresetsCollide(x.p) } :
          v_positions = inst.v /\ presets = inst.p
    /\ Start("assign")

\* validate(instance, rules) on a well-formed input
InitValidate == WellFormedInput /\ Start("validate")

\* either entry point on an input with a shared rule_id or colliding presets
InitMalformed == MalformedInput /\ \E entry \in {"assign", "validate"} : Start(entry)

(* ---------------- inputs with target filters ---------------- *)
Ranks == {"R1", "R2"}
Names == {"a", "b"}

Filters ==
    { Filter(ir, er, inn, en) :
        ir \in SUBSET Ranks, er \in SUBSET Ranks,
        inn \in SUBSET Names, en \in SUBSET Names }

Rosters == SeqsUpTo([name : Names, rank : Ranks], MaxRoster)

\* rule.targets(instance) called on its own, for every filter and roster
InitTargets ==
    /\ Start("targets")
    /\ call = Some([fn |-> "targets"])
    /\ ret = None
    /\ asked = None
    /\ v_positions = {}
    /\ presets = {}
    /\ \E f \in Filters : rules = << TargetsDoAtLeastOfTypeFor(AllTypes, f) >>
    /\ residents \in Rosters
    /\ external_rotations \in SUBSET (0 .. (Len(residents) - 1))

\* list(rule.targets(instance)): the indices, or the ValueError
CallTargets ==
    /\ pc = "targets"
    /\ ret' = Some([ raises |-> targets_raises(rules[1].filter),
                     ids |-> IF targets_raises(rules[1].filter)
                             THEN {} ELSE targets(rules[1]) ])
    /\ pc' = "done"
    /\ UNCHANGED << rules, v_positions, presets, active_ids, relaxed, first_core,
                    attempt, status, status_t, core_rids, relaxed_sorted,
                    pos, mus, definite, result >>
    /\ UNCHANGED << residents, external_rotations, call, asked >>

\* the objects _core_rule_ids is called on: two named variables, a second
\* object carrying the name of the first, and an object whose Name() raises
Objects ==
    { [id |-> 1, name |-> Some("enable_a")],
      [id |-> 2, name |-> Some("enable_b")],
      [id |-> 3, name |-> Some("enable_a")],
      [id |-> 4, name |-> None] }

Object(n) == CHOOSE o \in Objects : o.id = n

\* a dict has each key once
EnablesDicts ==
    { d \in SeqsUpTo([rid : {"a", "b", "c"}, var : Objects], MaxRules) :
        \A m, n \in 1 .. Len(d) : d[m].rid = d[n].rid => m = n }

InitCore ==
    /\ Start("_core_rule_ids")
    /\ OneResident
    /\ rules = << >>
    /\ v_positions = {}
    /\ presets = {}
    /\ ret = None
    /\ asked = None
    /\ \E core_lits \in SeqsUpTo(Objects, MaxCore), d \in EnablesDicts :
          call = Some([fn |-> "_core_rule_ids", core_lits |-> core_lits, enables |-> d])

\* _core_rule_ids(core_lits, enables)
CallCore ==
    /\ pc = "_core_rule_ids"
    /\ ret' = Some(_core_rule_ids(call[1].core_lits, call[1].enables))
    /\ pc' = "done"
    /\ UNCHANGED << rules, v_positions, presets, active_ids, relaxed, first_core,
                    attempt, status, status_t, core_rids, relaxed_sorted,
                    pos, mus, definite, result >>
    /\ UNCHANGED << residents, external_rotations, call, asked >>

(* ---------------- assign called twice ---------------- *)
\* policies short enough for one more rule to be added
InitTwice == Init /\ Len(rules) < MaxRules

\* the frame of a new call of assign (lines 202-216)
CallAssign ==
    /\ result' = None
    /\ pc' = "assign"
    /\ definite' = TRUE
    /\ UNCHANGED << v_positions, presets, active_ids, relaxed, first_core, attempt,
                    status, status_t, core_rids, relaxed_sorted, pos, mus >>
    /\ UNCHANGED << residents, external_rotations, asked >>

\* assign(instance, rules) is called again; the first result is kept by the caller
RunAgain ==
    /\ pc = "done"
    /\ result # None
    /\ ret = None
    /\ ret' = result
    /\ call' = Some([fn |-> "assign", added |-> None])
    /\ CallAssign
    /\ UNCHANGED rules

\* assign(instance, rules + [r]) is called, r a rule with a rule_id new to the policy
RunWithAddedRule ==
    /\ pc = "done"
    /\ result # None
    /\ ret = None
    /\ \E r \in Catalogue :
          /\ rule_id(r) \notin Range(enables)
          /\ rules' = Append(rules, r)
          /\ call' = Some([fn |-> "assign", added |-> Some(rule_id(r))])
    /\ ret' = result
    /\ CallAssign

(* ---------------- the counting rules over a calendar ---------------- *)
WEEKDAYS == << "L", "M", "X", "J", "V", "S", "D" >>

\* n consecutive days starting on weekday start, the first wrap of them the
\* last days of a month (wrap = 0: all in one month)
Calendar(n, start, wrap) ==
    [ p \in 1 .. n |->
        [ number |-> IF p <= wrap THEN 31 - (wrap - p) ELSE p - wrap,
          day_of_week |-> WEEKDAYS[((start + p - 2) % 7) + 1] ] ]

Calendars ==
    { Calendar(n, start, wrap) : n \in 1 .. MaxDays, start \in 1 .. 7, wrap \in 0 .. MaxDays }

\* Instance.__post_init__: first index where the day number decreases, else len(days)
eom(ds) ==
    LET drops == { idx \in 1 .. (Len(ds) - 1) : ds[idx + 1].number < ds[idx].number }
    IN IF drops = {} THEN Len(ds) ELSE CHOOSE idx \in drops : \A o \in drops : idx <= o

\* the rules that count shifts, applied to one targeted resident (index 0) with
\* no emergency positions; n is the integer parameter ('total', 'max')
CountingRule(cls, types, n) == [cls |-> cls, types |-> types, n |-> n]
CountingRules ==
    { CountingRule("TotalNumberOfShifts", {}, t) : t \in 0 .. 2 }
    \cup { CountingRule("TargetsDoAtLeastOfType", ts, 0) : ts \in { {"R"}, {"R", "G"} } }
    \cup { CountingRule("MaxTwoPerTypeForTargets", {}, 0) }
    \cup { CountingRule("AtLeastOneWeekendForTargets", {}, 0) }
    \cup { CountingRule("MaxWeekendShiftsForTargets", {}, m) : m \in 0 .. 1 }
    \cup { CountingRule("WeekendBalanceForTargets", {}, 0) }

\* sum(lits) for the literals of the day indices js and the shift types ks
SumLits(X, js, ks) == Cardinality({ c \in X : c[1] = 0 /\ c[2] \in js /\ c[3] \in ks })
DayIndices(ds) == 0 .. (Len(ds) - 1)
WeekdayIs(ds, j, names) == ds[j + 1].day_of_week \in names

\* TotalNumberOfShifts.apply
HoldsTotalNumberOfShifts(r, ds, X) ==
    SumLits(X, { j \in DayIndices(ds) : j < eom(ds) }, ShiftType) = r.n

\* TargetsDoAtLeastOfType.apply, over a calendar
HoldsAtLeastOfType(r, ds, X) ==
    \A k \in { k \in ShiftType : ShiftName[k] \in r.types } :
        LET js == { j \in DayIndices(ds) : j < eom(ds) }
        IN js # {} => SumLits(X, js, {k}) >= 1

\* MaxTwoPerTypeForTargets.apply
HoldsMaxTwoPerTypeForTargets(ds, X) ==
    \A k \in ShiftType : SumLits(X, { j \in DayIndices(ds) : j < eom(ds) }, {k}) <= 2

\* AtLeastOneWeekendForTargets.apply
HoldsAtLeastOneWeekendForTargets(ds, X) ==
    LET js == { j \in DayIndices(ds) : WeekdayIs(ds, j, {"S", "D"}) /\ j < eom(ds) }
    IN js # {} => SumLits(X, js, ShiftType) >= 1

\* MaxWeekendShiftsForTargets.apply
HoldsMaxWeekendShiftsForTargets(r, ds, X) ==
    LET weekend_js == { j \in DayIndices(ds) : WeekdayIs(ds, j, {"S", "D"}) }
    IN weekend_js # {} => SumLits(X, weekend_js, ShiftType) <= r.n

\* WeekendBalanceForTargets.apply
HoldsWeekendBalanceForTargets(ds, X) ==
    LET sat_js == { j \in DayIndices(ds) : j < eom(ds) /\ WeekdayIs(ds, j, {"S"}) }
        sun_js == { j \in DayIndices(ds) : j < eom(ds) /\ WeekdayIs(ds, j, {"D"}) }
    IN /\ SumLits(X, sat_js, ShiftType) - SumLits(X, sun_js, ShiftType) <= 1
       /\ SumLits(X, sun_js, ShiftType) - SumLits(X, sat_js, ShiftType) <= 1

\* whether the constraints the rule posts hold of the assignment X
HoldsCounting(r, ds, X) ==
    CASE r.cls = "TotalNumberOfShifts" -> HoldsTotalNumberOfShifts(r, ds, X)
      [] r.cls = "TargetsDoAtLeastOfType" -> HoldsAtLeastOfType(r, ds, X)
      [] r.cls = "MaxTwoPerTypeForTargets" -> HoldsMaxTwoPerTypeForTargets(ds, X)
      [] r.cls = "AtLeastOneWeekendForTargets" -> HoldsAtLeastOneWeekendForTargets(ds, X)
      [] r.cls = "MaxWeekendShiftsForTargets" -> HoldsMaxWeekendShiftsForTargets(r, ds, X)
      [] r.cls = "WeekendBalanceForTargets" -> HoldsWeekendBalanceForTargets(ds, X)

\* the assignments of the targeted resident over a calendar
Assignments(ds) ==
    { X \in SUBSET ({0} \X DayIndices(ds) \X ShiftType) : Cardinality(X) <= MaxShifts }

InitCounting ==
    /\ Start("apply")
    /\ OneResident
    /\ rules = << >>
    /\ v_positions = {}
    /\ presets = {}
    /\ ret = None
    /\ asked = None
    /\ \E r \in CountingRules, ds \in Calendars :
          \E X \in Assignments(ds) :
             call = Some([fn |-> "apply", rule |-> r, days |-> ds, X |-> X])

\* rule.apply(model, instance, shifts), evaluated on the assignment
CallApply ==
    /\ pc = "apply"
    /\ ret' = Some(HoldsCounting(call[1].rule, call[1].days, call[1].X))
    /\ pc' = "done"
    /\ UNCHANGED << rules, v_positions, presets, active_ids, relaxed, first_core,
                    attempt, status, status_t, core_rids, relaxed_sorted,
                    pos, mus, definite, result >>
    /\ UNCHANGED << residents, external_rotations, call, asked >>

(* ---------------- the rules that read the emergency positions ---------------- *)
MaxMonth == 3

\* calendars of one weekday start; wrap = 2 puts the month's end after the second day
Months == { Calendar(n, 1, wrap) : n \in 1 .. MaxMonth, wrap \in {0, 2} }

\* Instance.u_positions / Instance.ut_positions of the targeted resident (index 0):
\* a cell of the sheet holds one marker, so the two sets are disjoint
PositionSets(ds) ==
    { p \in [u : SUBSET ({0} \X DayIndices(ds)), ut : SUBSET ({0} \X DayIndices(ds))] :
        p.u \cap p.ut = {} }

\* the instances with u positions only
UPositionSets(ds) == { p \in PositionSets(ds) : p.ut = {} }

PositionRule(cls, total, m_shifts, n_days) ==
    [cls |-> cls, total |-> total, m_shifts |-> m_shifts, n_days |-> n_days]

\* BlockAroundEmergencyU.apply: only the day itself at the first and last index
HoldsBlockAroundEmergencyU_edges(u, ds, X) ==
    \A p \in u : \A k \in ShiftType :
        /\ << p[1], p[2], k >> \notin X
        /\ << p[1], p[2] + 1, k >> \notin X
        /\ << p[1], p[2] - 1, k >> \notin X
HoldsBlockAroundEmergencyU(u, ds, X) ==
    \A p \in u : \A k \in ShiftType :
        /\ << p[1], p[2], k >> \notin X
        /\ (0 < p[2] /\ p[2] < Len(ds) - 1) =>
              /\ << p[1], p[2] + 1, k >> \notin X
              /\ << p[1], p[2] - 1, k >> \notin X

\* TotalNumberOfShifts.apply with the emergency positions of the instance
HoldsTotalNumberOfShiftsAt_unclipped(total, u, ut, ds, X) ==
    SumLits(X, { j \in DayIndices(ds) : j < eom(ds) }, ShiftType)
        = total - Cardinality({ p \in u : p[1] = 0 }) - (Cardinality({ p \in ut : p[1] = 0 }) \div 2)
HoldsTotalNumberOfShiftsAt(total, u, ut, ds, X) ==
    LET u_count == Cardinality({ p \in u : p[1] = 0 })
        ut_count == Cardinality({ p \in ut : p[1] = 0 })
        base == total - u_count - (ut_count \div 2)
        rhs == IF base < 0 THEN 0 ELSE base
    IN SumLits(X, { j \in DayIndices(ds) : j < eom(ds) }, ShiftType) = rhs

\* NoMShiftsInNDays.apply: the parameter checks
NoMShiftsInNDays_raises(m_shifts, n_days, ds) ==
    \/ m_shifts <= 0
    \/ n_days <= 0
    \/ n_days > Len(ds)

\* NoMShiftsInNDays.apply: the window constraints
HoldsNoMShiftsInNDays_atmost(m_shifts, n_days, u, ds, X) ==
    \A j \in 0 .. (Len(ds) - n_days) :
        SumLits(X, j .. (j + n_days - 1), ShiftType)
          + Cardinality({ p \in u : p[1] = 0 /\ j <= p[2] /\ p[2] < j + n_days }) <= m_shifts
HoldsNoMShiftsInNDays(m_shifts, n_days, u, ds, X) ==
    \A j \in 0 .. (Len(ds) - n_days) :
        SumLits(X, j .. (j + n_days - 1), ShiftType)
          + Cardinality({ p \in u : p[1] = 0 /\ j <= p[2] /\ p[2] < j + n_days }) < m_shifts

\* _extract_matrix, the row of the targeted resident over a calendar
_extract_row(X, ds) ==
    [ p \in 1 .. Len(ds) |->
        LET ks == { k \in ShiftType : << 0, p - 1, k >> \in X }
        IN IF ks = {} THEN "" ELSE ShiftName[CHOOSE k \in ks : \A o \in ks : k <= o] ]

StartPositions(r, ds, positions) ==
    /\ Start("apply")
    /\ OneResident
    /\ rules = << >>
    /\ v_positions = {}
    /\ presets = {}
    /\ ret = None
    /\ asked = None
    /\ \E p \in positions, X \in Assignments(ds) :
          call = Some([fn |-> "apply", rule |-> r, days |-> ds,
                       u_positions |-> p.u, ut_positions |-> p.ut, X |-> X])

InitBlock ==
    \E ds \in Months :
        StartPositions(PositionRule("BlockAroundEmergencyU", 0, 0, 0), ds, UPositionSets(ds))

InitTotal ==
    \E ds \in Months, t \in 0 .. 2 :
        StartPositions(PositionRule("TotalNumberOfShifts", t, 0, 0), ds, PositionSets(ds))

InitWindow ==
    \E k \in 1 .. MaxMonth, m \in 0 .. 2, n \in 0 .. (MaxMonth + 1) :
        LET ds == Calendar(k, 1, 0)
        IN StartPositions(PositionRule("NoMShiftsInNDays", 0, m, n), ds, UPositionSets(ds))

\* rule.apply(model, instance, shifts) for the three rules, evaluated on the assignment
CallApplyPositions ==
    /\ pc = "apply"
    /\ LET c == call[1]
           r == c.rule
       IN ret' = Some(
            CASE r.cls = "BlockAroundEmergencyU" ->
                    [raises |-> FALSE,
                     holds |-> HoldsBlockAroundEmergencyU(c.u_positions, c.days, c.X)]
              [] r.cls = "TotalNumberOfShifts" ->
                    [raises |-> FALSE,
                     holds |-> HoldsTotalNumberOfShiftsAt(r.total, c.u_positions,
                                                          c.ut_positions, c.days, c.X)]
              [] r.cls = "NoMShiftsInNDays" ->
                    IF NoMShiftsInNDays_raises(r.m_shifts, r.n_days, c.days)
                    THEN [raises |-> TRUE, holds |-> FALSE]
                    ELSE [raises |-> FALSE,
                          holds |-> HoldsNoMShiftsInNDays(r.m_shifts, r.n_days,
                                                          c.u_positions, c.days, c.X)])
    /\ pc' = "done"
    /\ UNCHANGED << rules, v_positions, presets, active_ids, relaxed, first_core,
                    attempt, status, status_t, core_rids, relaxed_sorted,
                    pos, mus, definite, result >>
    /\ UNCHANGED << residents, external_rotations, call, asked >>

\* the filters of the policies assign is run on
PolicyFilters ==
    { Filter({"R2"}, {}, {}, {}),
      Filter({}, {}, {"a"}, {}),
      Filter({"R1"}, {}, {}, {"a"}),
      Filter({"R1"}, {}, {"a"}, {}),
      Filter({"R1"}, {"R2"}, {"b"}, {}) }

FilteredCatalogue ==
    { OneShiftPerDay, RestrictedDayOff, EnforcePresets }
    \cup { TargetsDoAtLeastOfTypeFor(AllTypes, f) : f \in PolicyFilters }

\* assign(instance, rules) on a policy with one filtered rule
InitFiltered ==
    /\ Start("assign")
    /\ NoCall
    /\ OneResident
    /\ rules \in { rs \in SeqsUpTo(FilteredCatalogue, MaxRules) :
                     /\ DistinctRuleIds(rs)
                     /\ \E n \in 1 .. Len(rs) : rs[n].cls = "TargetsDoAtLeastOfType" }
    /\ \E inst \in { x \in Instances : ~PresetsCollide(x.p) } :
          v_positions = inst.v /\ presets = inst.p

(* ---------------- assign ---------------- *)
\* build_model raises in the first attempt: the ValueError reaches the caller
BuildRaises ==
    /\ pc \in {"assign", "validate"}
    /\ apply_rules_raises(rules)
    /\ pc' = "raised"
    /\ UNCHANGED << rules, v_positions, presets, active_ids, relaxed, first_core,
                    attempt, status, status_t, core_rids, relaxed_sorted,
                    pos, mus, definite, result >>
    /\ UNCHANGED << aux, asked >>

\* return: the result is handed to the caller and the locals are gone
Return(res) ==
    /\ result' = Some(res)
    /\ pc' = "done"
    /\ active_ids' = None
    /\ relaxed' = << >>
    /\ first_core' = None
    /\ attempt' = 0
    /\ status' = "NONE"
    /\ status_t' = "NONE"
    /\ core_rids' = << >>
    /\ relaxed_sorted' = << >>
    /\ pos' = 1
    /\ mus' = << >>

\* active_ids left empty on the first attempt
ActiveNow_unset == IF active_ids = None THEN {} ELSE active_ids[1]

\* if active_ids is None: active_ids = set(enables.keys())
ActiveNow == IF active_ids = None THEN Range(enables) ELSE active_ids[1]

\* sorted(relaxed, key=lambda rid: (rule_priority.get(rid, 0), relaxed.index(rid)))
KeyLess(rel, a, b) ==
    \/ rule_priority(a) < rule_priority(b)
    \/ rule_priority(a) = rule_priority(b) /\ IndexOf(rel, a) < IndexOf(rel, b)

RECURSIVE InsertSorted(_, _, _)
InsertSorted(rel, s, x) ==
    IF s = << >> THEN <<x>>
    ELSE IF KeyLess(rel, x, s[1]) THEN <<x>> \o s
         ELSE <<s[1]>> \o InsertSorted(rel, Tail(s), x)

RECURSIVE SortUpTo(_, _)
SortUpTo(rel, n) ==
    IF n = 0 THEN << >> ELSE InsertSorted(rel, SortUpTo(rel, n - 1), rel[n])

\* sorted left out: the relaxation order
sorted_not(rel) == rel

sorted(rel) == SortUpTo(rel, Len(rel))

\* to_disable with the least relaxable core member chosen
to_disable_min_prio(core, active) ==
    LET enabled_core == SelectIn(core, active)
        prios == { rule_priority(rid) : rid \in Range(enabled_core) }
        min_prio == CHOOSE p \in prios : \A q \in prios : p <= q
        candidates ==
            SelectSeq(core, LAMBDA rid :
                rid \in Range(enabled_core) /\ rule_priority(rid) = min_prio)
    IN IF enabled_core = << >> THEN None
       ELSE IF candidates = << >> THEN None ELSE Some(candidates[1])

\* lines 336-352: the rule to disable, as a list of at most one element
to_disable(core, active) ==
    LET enabled_core == SelectIn(core, active)
        prios == { rule_priority(rid) : rid \in Range(enabled_core) }
        max_prio == CHOOSE p \in prios : \A q \in prios : q <= p
        candidates ==
            SelectSeq(core, LAMBDA rid :
                rid \in Range(enabled_core) /\ rule_priority(rid) = max_prio)
    IN IF enabled_core = << >> THEN None
       ELSE IF candidates = << >> THEN None ELSE Some(candidates[1])

\* failure with the relaxed rules reported in trim order
failure_sorted(st, fc, rel) == AssignmentResult(None, None, st, fc, sorted(rel))

\* lines 320-327, 338-345: the failure result
failure(st, fc, rel) == AssignmentResult(None, None, st, fc, rel)

\* keep_enabled with only a proven optimum kept
keep_enabled_optimal_only(st) == st = "OPTIMAL"

\* keep_enabled with every status but INFEASIBLE kept
keep_enabled_not_infeasible(st) == st # "INFEASIBLE"

\* line 271: a probed rule stays enabled iff its solve is OPTIMAL or FEASIBLE
keep_enabled(st) == st \in OkStatus

\* final_relaxed with the test inverted
final_relaxed_inverted(active) == SelectSeq(enables, LAMBDA rid : rid \in active /\ rid \in Range(relaxed))

\* final_relaxed read off the relaxed list
final_relaxed_as_relaxed(active) == SelectSeq(relaxed, LAMBDA rid : rid \notin active)

\* line 309: final_relaxed = [rid for rid in enables_f.keys() if rid not in active_ids]
final_relaxed(active) == SelectSeq(enables, LAMBDA rid : rid \notin active)

\* first_core overwritten by every core
record_first_core_latest(core) == Some(core)

\* lines 333-334: if first_core is None: first_core = core_rids
record_first_core(core) == IF first_core = None THEN Some(core) ELSE first_core

\* lines 217-239, 319: an attempt whose solve is OPTIMAL or FEASIBLE
AttemptFeasible ==
    /\ pc = "assign"
    /\ ~apply_rules_raises(rules)
    /\ \E st \in Answers(ActiveNow) \cap OkStatus :
          /\ status' = st
          /\ asked' = Record(ActiveNow, st)
          /\ active_ids' = Some(ActiveNow)
          /\ IF relaxed # << >>
             THEN /\ relaxed_sorted' = sorted(relaxed)
                  /\ pos' = 1
                  /\ pc' = "trim"
             ELSE /\ pc' = "final"
                  /\ UNCHANGED << relaxed_sorted, pos >>
    /\ core_rids' = << >>
    /\ UNCHANGED << rules, v_positions, presets, relaxed, first_core, attempt,
                    status_t, mus, definite, result >>
    /\ UNCHANGED aux

\* lines 319-327: neither OPTIMAL, FEASIBLE nor INFEASIBLE
AttemptUnknown ==
    /\ pc = "assign"
    /\ ~apply_rules_raises(rules)
    /\ \E st \in Answers(ActiveNow) \ (OkStatus \cup {"INFEASIBLE"}) :
          /\ Return(failure(st, first_core, relaxed))
          /\ asked' = Record(ActiveNow, st)
    /\ definite' = FALSE
    /\ UNCHANGED << rules, v_positions, presets >>
    /\ UNCHANGED aux

\* lines 329-365: INFEASIBLE: read the core, disable one rule, loop
AttemptInfeasible ==
    /\ pc = "assign"
    /\ ~apply_rules_raises(rules)
    /\ "INFEASIBLE" \in Answers(ActiveNow)
    /\ asked' = Record(ActiveNow, "INFEASIBLE")
    /\ LET items == enables_items
       IN \E core_lits \in SufficientAssumptionsForInfeasibility(ActiveNow, FALSE) :
          LET core == _core_rule_ids(get_bool_vars(core_lits), items)
              fc == record_first_core(core)
              d == to_disable(core, ActiveNow)
          IN IF d = None
             THEN Return(failure("INFEASIBLE", fc, relaxed))
             ELSE /\ status' = "INFEASIBLE"
                  /\ core_rids' = core
                  /\ first_core' = fc
                  /\ active_ids' = Some(ActiveNow \ {d[1]})
                  /\ relaxed' = Append(relaxed, d[1])
                  /\ attempt' = attempt + 1
                  /\ pc' = "assign"
                  /\ UNCHANGED << result, status_t, relaxed_sorted, pos, mus >>
    /\ UNCHANGED << rules, v_positions, presets, definite >>
    /\ UNCHANGED aux

\* a trim pass that probes the same rule again
TrimProbe_repeats ==
    /\ pc = "trim"
    /\ pos <= Len(relaxed_sorted)
    /\ LET rid == relaxed_sorted[pos]
           probe == active_ids[1] \cup {rid}
       IN \E st \in Answers(probe) :
             /\ status_t' = st
             /\ asked' = Record(probe, st)
             /\ active_ids' = IF ~keep_enabled(st) THEN Some(probe \ {rid}) ELSE Some(probe)
             /\ definite' = (definite /\ st # "UNKNOWN")
    /\ pos' = pos
    /\ pc' = "trim"
    /\ UNCHANGED << rules, v_positions, presets, relaxed, first_core, attempt,
                    status, core_rids, relaxed_sorted, mus, result >>
    /\ UNCHANGED aux

\* lines 249-275: one probe of the trim pass
TrimProbe ==
    /\ pc = "trim"
    /\ pos <= Len(relaxed_sorted)
    /\ LET rid == relaxed_sorted[pos]
           probe == active_ids[1] \cup {rid}
       IN \E st \in Answers(probe) :
             /\ status_t' = st
             /\ asked' = Record(probe, st)
             /\ active_ids' = IF ~keep_enabled(st) THEN Some(probe \ {rid}) ELSE Some(probe)
             /\ definite' = (definite /\ st # "UNKNOWN")
    /\ pos' = pos + 1
    /\ pc' = IF pos = Len(relaxed_sorted) THEN "final" ELSE "trim"
    /\ UNCHANGED << rules, v_positions, presets, relaxed, first_core, attempt,
                    status, core_rids, relaxed_sorted, mus, result >>
    /\ UNCHANGED aux

\* _extract_matrix(solver, ...) and solver.ObjectiveValue() of the values a solver may hold
Extracted(values) ==
    { [matrix |-> _extract_matrix(X), objective |-> ObjectiveValue(X)] : X \in values }

\* lines 277-317: the final solve and the two returns
FinalSolve ==
    /\ pc = "final"
    /\ \E st \in Answers(active_ids[1]) :
          /\ definite' = (definite /\ st # "UNKNOWN")
          /\ asked' = Record(active_ids[1], st)
          /\ IF st \notin OkStatus
             THEN \E out \in Extracted(SolverValues(Range(enables) \ Range(relaxed), status)) :
                     Return(AssignmentResult(
                               Some(out.matrix), Some(out.objective),
                               status, first_core, relaxed))
             ELSE \E out \in Extracted(SolverValues(active_ids[1], st)) :
                     Return(AssignmentResult(
                               Some(out.matrix), Some(out.objective),
                               st, first_core, final_relaxed(active_ids[1])))
    /\ UNCHANGED << rules, v_positions, presets >>
    /\ UNCHANGED aux

(* ---------------- validate ---------------- *)
\* mus.remove(rid)
Remove(s, x) == SelectSeq(s, LAMBDA y : y # x)

\* trial with rid left in
trial_keeps_rid(m, rid) == Range(m)

\* line 134: trial = [enables[x] for x in mus if x != rid]
trial(m, rid) == Range(m) \ {rid}

\* lines 157-192: build, fix the presets, assert every enable literal, solve
ValidateSolve ==
    /\ pc = "validate"
    /\ ~apply_rules_raises(rules)
    /\ \E st \in Solve(Range(_assumptions(None)), TRUE) :
          /\ definite' = (st # "UNKNOWN")
          /\ IF st = "INFEASIBLE"
             THEN \E core_lits \in
                        SufficientAssumptionsForInfeasibility(Range(_assumptions(None)), TRUE) :
                     LET core == _core_rule_ids(get_bool_vars(core_lits), enables_items)
                     IN IF core = << >>
                        THEN Return(ValidationResult(st, Some(core)))
                        ELSE /\ status' = st
                             /\ core_rids' = core
                             /\ mus' = core
                             /\ pc' = "shrink"
                             /\ UNCHANGED << result, active_ids, relaxed, first_core,
                                             attempt, status_t, relaxed_sorted, pos >>
             ELSE Return(ValidationResult(st, None))
    /\ UNCHANGED << rules, v_positions, presets >>
    /\ UNCHANGED << aux, asked >>

\* _shrink_core_to_mus, lines 130-147: one iteration; the last one returns
ShrinkStep ==
    /\ pc = "shrink"
    /\ pos <= Len(core_rids)
    /\ LET rid == core_rids[pos]
       IN \E st \in (IF rid \in Range(mus) THEN Solve(trial(mus, rid), TRUE) ELSE {status_t}) :
             LET m == IF rid \in Range(mus) /\ st = "INFEASIBLE" THEN Remove(mus, rid) ELSE mus
             IN /\ definite' = (definite /\ st # "UNKNOWN")
                /\ IF pos = Len(core_rids)
                   THEN Return(ValidationResult(status, Some(m)))
                   ELSE /\ status_t' = st
                        /\ mus' = m
                        /\ pos' = pos + 1
                        /\ UNCHANGED << result, pc, active_ids, relaxed, first_core,
                                        attempt, status, core_rids, relaxed_sorted >>
    /\ UNCHANGED << rules, v_positions, presets >>
    /\ UNCHANGED << aux, asked >>

(* ======================= properties ======================= *)
Returned == result # None
Res == result[1]
AssignReturned == Returned /\ Res.op = "assign"
MatrixReturned == AssignReturned /\ Res.matrix # None
Cell(i, j) == Res.matrix[1][i + 1][j + 1]
PolicyIds == Range(enables)

\* the rules of the relaxation loop's core that are currently enabled
EnabledCore(core, active) == Range(core) \cap active

\* C1: every INFEASIBLE attempt whose core meets active_ids disables exactly
\* one rule: the core member of active_ids with the largest priority, the
\* first of them in core order; it leaves active_ids and is appended to relaxed.
C1_DisablesMostRelaxable ==
    [][ (pc = "assign" /\ pc' = "assign") =>
          \E rid \in EnabledCore(core_rids', ActiveNow) :
             /\ \A o \in EnabledCore(core_rids', ActiveNow) :
                   /\ rule_priority(o) <= rule_priority(rid)
                   /\ rule_priority(o) = rule_priority(rid)
                         => IndexOf(core_rids', rid) <= IndexOf(core_rids', o)
             /\ active_ids' = Some(ActiveNow \ {rid})
             /\ relaxed' = Append(relaxed, rid)
             /\ status' = "INFEASIBLE" ]_vars

\* scenario S4, with the core listing one_shift_per_day first: the priority decides
C1_Witness ==
    /\ rules = << OneShiftPerDay, TargetsDoAtLeastOfType(AllTypes) >>
    /\ pc = "assign"
    /\ core_rids = << "one_shift_per_day", "targets_do_at_least_of_type" >>
    /\ relaxed = << "targets_do_at_least_of_type" >>
    /\ active_ids = Some({"one_shift_per_day"})

\* C2: the trim pass probes the relaxed rules one at a time by ascending
\* priority, ties in relaxation order; a probed rule is added to active_ids and
\* stays iff the solve with it is OPTIMAL or FEASIBLE.
C2_TrimOrder ==
    /\ Len(relaxed_sorted') = Len(relaxed)
    /\ Range(relaxed_sorted') = Range(relaxed)
    /\ \A a, b \in 1 .. Len(relaxed_sorted') :
          a < b =>
             LET x == relaxed_sorted'[a]
                 y == relaxed_sorted'[b]
             IN \/ rule_priority(x) < rule_priority(y)
                \/ /\ rule_priority(x) = rule_priority(y)
                   /\ IndexOf(relaxed, x) < IndexOf(relaxed, y)
    /\ pos' = 1

C2_TrimStep ==
    LET rid == relaxed_sorted[pos]
    IN /\ pos <= Len(relaxed_sorted)
       /\ status_t' \in Solve(active_ids[1] \cup {rid}, FALSE)
       /\ (rid \in active_ids'[1]) <=> (status_t' \in {"OPTIMAL", "FEASIBLE"})
       /\ active_ids'[1] \ {rid} = active_ids[1] \ {rid}
       /\ pos' = pos + 1
       /\ relaxed_sorted' = relaxed_sorted
       /\ pc' = IF pos < Len(relaxed_sorted) THEN "trim" ELSE "final"

C2_TrimPass ==
    [][ /\ (pc = "assign" /\ pc' = "trim") => C2_TrimOrder
        /\ pc = "trim" => C2_TrimStep ]_vars

\* the probe order differs from the relaxation order, and a probe restored a rule
C2_Witness ==
    /\ pc = "final"
    /\ relaxed_sorted # relaxed
    /\ Range(relaxed) \cap active_ids[1] # {}
    /\ Range(relaxed) \ active_ids[1] # {}

\* C3 (as claimed): a returned matrix comes with the fewest relaxed rules
\* that make the rest of the policy satisfiable.
C3_FewestRelaxed ==
    (MatrixReturned /\ definite) =>
        ~ \E S \in SUBSET PolicyIds :
             /\ Cardinality(S) < Len(Res.relaxed_rules)
             /\ Satisfiable(PolicyIds \ S, FALSE)

\* C3 (amended): when every solve ended with a definite status, the rules
\* left enabled are jointly satisfiable and relaxed_rules is subset-minimal:
\* re-enabling any of the relaxed rules makes the policy unsatisfiable.
C3_SubsetMinimalRelaxed ==
    (MatrixReturned /\ definite) =>
        /\ Satisfiable(PolicyIds \ Range(Res.relaxed_rules), FALSE)
        /\ \A S \in SUBSET Range(Res.relaxed_rules) :
              S # Range(Res.relaxed_rules) => ~Satisfiable(PolicyIds \ S, FALSE)

\* two rules relaxed although relaxing one other rule would have been enough
C3_Witness ==
    /\ MatrixReturned
    /\ definite
    /\ Len(Res.relaxed_rules) = 2
    /\ \E r \in PolicyIds : Satisfiable(PolicyIds \ {r}, FALSE)


\* C4: an INFEASIBLE validate whose shrink solves all ended with a definite
\* status returns a subset-minimal core: its rules are jointly infeasible
\* (under the fixed presets) and dropping any one of them is feasible.
C4_CoreIsMUS ==
    (Returned /\ Res.op = "validate" /\ Res.solver_status = "INFEASIBLE" /\ definite) =>
        /\ Res.unsat_core # None
        /\ LET C == Res.unsat_core[1]
           IN /\ Range(C) \subseteq PolicyIds
              /\ ~Satisfiable(Range(C), TRUE)
              /\ \A rid \in Range(C) : Satisfiable(Range(C) \ {rid}, TRUE)

\* a core of two rules returned for a policy of three: the shrink had work to do
C4_Witness ==
    /\ Returned
    /\ Res.op = "validate"
    /\ Res.solver_status = "INFEASIBLE"
    /\ definite
    /\ Len(enables) = 3
    /\ Len(Res.unsat_core[1]) = 2
    /\ \A rid \in PolicyIds : ~Satisfiable({rid}, TRUE) => rid \notin Range(Res.unsat_core[1])

\* C5 (as claimed): every returned matrix is empty at every v position.
C5_VPositionsEmpty ==
    MatrixReturned => \A p \in v_positions : Cell(p[1], p[2]) = ""

\* C5 (amended): every returned matrix is empty at every v position when the
\* policy holds a RestrictedDayOff rule whose rule_id is not in relaxed_rules.
C5_VPositionsEmptyUnlessRelaxed ==
    ( /\ MatrixReturned
      /\ "restricted_day_off" \in PolicyIds
      /\ "restricted_day_off" \notin Range(Res.relaxed_rules) ) =>
        \A p \in v_positions : Cell(p[1], p[2]) = ""

\* a v position kept empty although another rule had to be relaxed for it
C5_Witness ==
    /\ MatrixReturned
    /\ v_positions # {}
    /\ "restricted_day_off" \in PolicyIds
    /\ "restricted_day_off" \notin Range(Res.relaxed_rules)
    /\ Res.relaxed_rules # << >>
    /\ \A p \in v_positions : Cell(p[1], p[2]) = ""

\* C6 (as claimed): every returned matrix shows each preset's shift type,
\* unless enforce_presets is in relaxed_rules.
C6_PresetsShown ==
    (MatrixReturned /\ "enforce_presets" \notin Range(Res.relaxed_rules)) =>
        \A p \in presets : Cell(p[1], p[2]) = ShiftName[p[3]]

\* C6 (amended): when the policy holds an EnforcePresets rule whose rule_id is
\* not in relaxed_rules, each preset cell shows a shift type of ordinal at most
\* the preset's; it shows the preset's shift type when the policy also holds a
\* OneShiftPerDay rule whose rule_id is not in relaxed_rules.
C6_PresetsShownUnderOneShift ==
    ( /\ MatrixReturned
      /\ "enforce_presets" \in PolicyIds
      /\ "enforce_presets" \notin Range(Res.relaxed_rules) ) =>
        \A p \in presets :
           /\ \E k \in ShiftType : k <= p[3] /\ Cell(p[1], p[2]) = ShiftName[k]
           /\ ( /\ "one_shift_per_day" \in PolicyIds
                /\ "one_shift_per_day" \notin Range(Res.relaxed_rules) )
                 => Cell(p[1], p[2]) = ShiftName[p[3]]

\* a preset of a shift type other than the first, shown under both rules
C6_Witness ==
    /\ MatrixReturned
    /\ {"enforce_presets", "one_shift_per_day"} \subseteq PolicyIds
    /\ {"enforce_presets", "one_shift_per_day"} \cap Range(Res.relaxed_rules) = {}
    /\ \E p \in presets : p[3] > 0 /\ Cell(p[1], p[2]) = ShiftName[p[3]]

\* C7: a rule list with a shared rule_id is a configuration error raised
\* before any solve; no step of assign or validate is taken and nothing returned.
C7_SharedRuleIdRaises ==
    ~DistinctRuleIds(rules) => (pc \in {"assign", "validate"} /\ ~Returned)

\* C8: colliding presets are a fatal build error; no solver status is returned.
C8_CollidingPresetsRaise ==
    PresetsCollide(presets) => ~Returned

\* C9 (as claimed): after an INFEASIBLE first attempt assign returns either a
\* matrix with a non-empty relaxed_rules, or matrix=None for a core without
\* any rule of active_ids.
C9_TwoEndings ==
    (AssignReturned /\ Res.unsat_core # None) =>
        \/ Res.matrix # None /\ Res.relaxed_rules # << >>
        \/ Res.matrix = None /\ Res.solver_status = "INFEASIBLE"

\* C9 (amended): ... or matrix=None with the status of a later attempt that is
\* neither OPTIMAL, FEASIBLE nor INFEASIBLE and the rules relaxed until then.
C9_ThreeEndings ==
    (AssignReturned /\ Res.unsat_core # None) =>
        \/ Res.matrix # None /\ Res.relaxed_rules # << >>
        \/ Res.matrix = None /\ Res.solver_status = "INFEASIBLE"
        \/ /\ Res.matrix = None
           /\ Res.solver_status \notin {"OPTIMAL", "FEASIBLE", "INFEASIBLE"}
           /\ Res.relaxed_rules # << >>

\* a matrix returned after an INFEASIBLE first attempt and a restoring trim pass
C9_Witness ==
    /\ MatrixReturned
    /\ Res.unsat_core # None
    /\ Len(Res.relaxed_rules) = 1
    /\ Len(enables) = 3
    /\ Len(Res.unsat_core[1]) = 3

\* C10: an attempt whose status is neither OPTIMAL, FEASIBLE nor INFEASIBLE
\* ends assign at once with matrix=None, objective=None, that status,
\* unsat_core = first_core and relaxed_rules = the rules disabled so far, in order.
C10_UnknownEndsAssign ==
    [][ /\ (pc = "assign" /\ status' \notin {"OPTIMAL", "FEASIBLE", "INFEASIBLE"}) =>
              /\ pc' = "done"
              /\ result' # None
              /\ result'[1].op = "assign"
              /\ result'[1].matrix = None
              /\ result'[1].objective = None
              /\ result'[1].solver_status \in Solve(ActiveNow, FALSE)
              /\ result'[1].unsat_core = first_core
              /\ result'[1].relaxed_rules = relaxed
        /\ ( /\ result' # None
             /\ result'[1].op = "assign"
             /\ result'[1].solver_status \notin {"OPTIMAL", "FEASIBLE", "INFEASIBLE"} ) =>
              pc = "assign" ]_vars

\* UNKNOWN on the third attempt, after two rules relaxed out of priority order
C10_Witness ==
    /\ AssignReturned
    /\ Res.solver_status = "UNKNOWN"
    /\ Res.matrix = None
    /\ Len(Res.relaxed_rules) = 2
    /\ rule_priority(Res.relaxed_rules[1]) > rule_priority(Res.relaxed_rules[2])
    /\ Res.unsat_core # None

\* C11: first_core is written at most once in an assign call: by the first
\* INFEASIBLE attempt, to that attempt's rule-id core; no later attempt and no
\* trim probe changes it, and every result carries it as unsat_core (None when
\* no attempt was INFEASIBLE).
C11_FirstCoreWrittenOnce ==
    [][ /\ (first_core # None /\ pc' # "done") => first_core' = first_core
        /\ (first_core = None /\ first_core' # None) =>
              /\ pc = "assign"
              /\ attempt = 0
              /\ status' = "INFEASIBLE"
              /\ first_core' = Some(core_rids')
        /\ (pc # "done" /\ pc' = "done") =>
              \/ result'[1].unsat_core = first_core
              \/ /\ pc = "assign"
                 /\ attempt = 0
                 /\ first_core = None
                 /\ result'[1].solver_status = "INFEASIBLE"
                 /\ result'[1].unsat_core # None
        /\ (pc = "assign" /\ attempt = 0 /\ pc' \in {"trim", "final"}) =>
              first_core' = None ]_vars

\* a second INFEASIBLE attempt read another core and first_core kept the first
C11_Witness ==
    /\ pc = "assign"
    /\ attempt = 2
    /\ first_core # None
    /\ core_rids # first_core[1]
    /\ Len(core_rids) < Len(first_core[1])

\* C12: validate solves with the enable literals of all rules asserted; it
\* returns unsat_core=None when the status is OPTIMAL or FEASIBLE, and for
\* INFEASIBLE it returns (does not raise) a result whose unsat_core is a list of
\* rule ids of the policy.
C12_ValidateResult ==
    (pc = "done") =>
        /\ Returned
        /\ Res.op = "validate"
        /\ Res.solver_status \in {"OPTIMAL", "FEASIBLE", "INFEASIBLE", "UNKNOWN"}
        /\ Res.solver_status \in OkStatus =>
              /\ Res.unsat_core = None
              /\ \E X \in Valuations :
                    /\ _fix_presets(X)
                    /\ \A n \in 1 .. Len(rules) : apply(rules[n], X)
        /\ Res.solver_status = "INFEASIBLE" =>
              /\ Res.unsat_core # None
              /\ Range(Res.unsat_core[1]) \subseteq { rule_id(rules[n]) : n \in 1 .. Len(rules) }
              /\ ~ \E X \in Valuations :
                    /\ _fix_presets(X)
                    /\ \A n \in 1 .. Len(rules) : apply(rules[n], X)

\* an INFEASIBLE validate of a policy in which one rule alone contradicts a preset
C12_Witness ==
    /\ Returned
    /\ Res.op = "validate"
    /\ Res.solver_status = "INFEASIBLE"
    /\ Res.unsat_core # None
    /\ Len(Res.unsat_core[1]) = 1
    /\ Len(rules) = 2
    /\ presets # {}

\* the presets, read as an assignment, satisfy every rule of the policy
PresetsSolveThePolicy == \A n \in 1 .. Len(rules) : apply(rules[n], presets)

\* C13 (as claimed): validate on presets that encode a rule-satisfying
\* assignment returns OPTIMAL or FEASIBLE and unsat_core = None.
C13_PresetSolutionValidates ==
    (Returned /\ Res.op = "validate" /\ PresetsSolveThePolicy) =>
        /\ Res.solver_status \in OkStatus
        /\ Res.unsat_core = None

\* C13 (amended): ... returns unsat_core = None and a status that is never
\* INFEASIBLE, and is OPTIMAL or FEASIBLE whenever the solve ends with a
\* definite status.
C13_PresetSolutionNeverInfeasible ==
    (Returned /\ Res.op = "validate" /\ PresetsSolveThePolicy) =>
        /\ Res.solver_status # "INFEASIBLE"
        /\ Res.unsat_core = None
        /\ definite => Res.solver_status \in OkStatus

\* a preset validated by the hard constraints alone: enforce_presets is not in the policy
C13_Witness ==
    /\ Returned
    /\ Res.op = "validate"
    /\ PresetsSolveThePolicy
    /\ presets # {}
    /\ Len(rules) = 2
    /\ "enforce_presets" \notin PolicyIds
    /\ Res.solver_status \in OkStatus

\* the filter, rule and instance of a targets() call
TheRule == rules[1]
NonEmptyFilters(f) ==
    { n \in {"include_ranks", "exclude_ranks", "include_names", "exclude_names"} : f[n] # {} }

\* C16: the target set is exactly the residents not in external_rotations that
\* satisfy the filter: all with no filter; by rank or name membership for one
\* filter; included rank and not excluded name for include_ranks+exclude_names;
\* not excluded rank or included name for exclude_ranks+include_names.
C16_TargetSet ==
    (pc = "done" /\ ~ret[1].raises) =>
        LET f == TheRule.filter
            on == NonEmptyFilters(f)
            sel(r) ==
                /\ on = {"include_ranks"} => r.rank \in f.include_ranks
                /\ on = {"exclude_ranks"} => r.rank \notin f.exclude_ranks
                /\ on = {"include_names"} => r.name \in f.include_names
                /\ on = {"exclude_names"} => r.name \notin f.exclude_names
                /\ on = {"include_ranks", "exclude_names"} =>
                      (r.rank \in f.include_ranks /\ r.name \notin f.exclude_names)
                /\ on = {"exclude_ranks", "include_names"} =>
                      (r.rank \notin f.exclude_ranks \/ r.name \in f.include_names)
        IN /\ \A i \in 0 .. (Len(residents) - 1) :
                 i \in ret[1].ids <=> (i \notin external_rotations /\ sel(residents[i + 1]))
           /\ ret[1].ids \subseteq 0 .. (Len(residents) - 1)
           /\ ret[1].ids \cap external_rotations = {}

\* a whitelisted name of an excluded rank is a target, one on external rotation is not
C16_Witness ==
    /\ pc = "done"
    /\ ~ret[1].raises
    /\ NonEmptyFilters(TheRule.filter) = {"exclude_ranks", "include_names"}
    /\ Len(residents) = 2
    /\ residents[1].rank \in TheRule.filter.exclude_ranks
    /\ residents[1].name \in TheRule.filter.include_names
    /\ residents[2].name \in TheRule.filter.include_names
    /\ external_rotations = {1}
    /\ ret[1].ids = {0}

\* a rule of the policy computes its targets from an illegal set of filters
IllegalFilterInPolicy ==
    \E n \in 1 .. Len(rules) :
       LET on == NonEmptyFilters(rules[n].filter)
       IN /\ rules[n].cls = "TargetsDoAtLeastOfType"
          /\ \/ Cardinality(on) > 2
             \/ /\ Cardinality(on) = 2
                /\ on # {"include_ranks", "exclude_names"}
                /\ on # {"exclude_ranks", "include_names"}

\* C17: more than two non-empty filters, or two that are not a legal pair,
\* raise a configuration error when the targets are computed, before any solve:
\* assign's only step is the raise, and nothing is returned.
C17_IllegalFiltersRaise ==
    [][ IllegalFilterInPolicy =>
          /\ pc = "assign"
          /\ attempt = 0
          /\ status = "NONE"
          /\ pc' = "raised"
          /\ status' = "NONE"
          /\ result' = None ]_vars

\* the raise, for a pair of filters that is not a legal one
C17_Witness ==
    /\ pc = "raised"
    /\ result = None
    /\ \E n \in 1 .. Len(rules) :
          NonEmptyFilters(rules[n].filter) = {"include_ranks", "include_names"}
    /\ Len(rules) = 3

\* a rule of the policy whose target filter yields the empty set
EmptyTargetRules ==
    { n \in 1 .. Len(rules) :
        /\ rules[n].cls = "TargetsDoAtLeastOfType"
        /\ ~targets_raises(rules[n].filter)
        /\ targets(rules[n]) = {} }

MatchesEnable(lit, d) ==
    \E n \in 1 .. Len(d) :
        \/ d[n].var.id = lit.id
        \/ (lit.name # None /\ d[n].var.name = lit.name)

\* the first position of the core list whose literal maps to rule id r
FirstOccurrence(lits, d, r) ==
    CHOOSE n \in 1 .. Len(lits) :
        /\ rid_of_lit(lits[n], d) = Some(r)
        /\ \A m \in 1 .. (n - 1) : rid_of_lit(lits[m], d) # Some(r)

\* C20: the list _core_rule_ids returns has no duplicates, holds only keys of
\* enables, holds the rule id of every literal that matches an enable literal
\* and nothing for a literal that matches none, in the order in which the rule
\* ids first occur in the input list.
C20_CoreMapping ==
    pc = "done" =>
        LET out == ret[1]
            lits == call[1].core_lits
            d == call[1].enables
            matched == { n \in 1 .. Len(lits) : MatchesEnable(lits[n], d) }
        IN /\ IsInjective(out)
           /\ Range(out) \subseteq { d[n].rid : n \in 1 .. Len(d) }
           /\ \A n \in 1 .. Len(lits) :
                 n \notin matched <=> rid_of_lit(lits[n], d) = None
           /\ Range(out) = { rid_of_lit(lits[n], d)[1] : n \in matched }
           /\ Len(out) <= Cardinality(matched)
           /\ \A a, b \in 1 .. Len(out) :
                 a < b => FirstOccurrence(lits, d, out[a]) < FirstOccurrence(lits, d, out[b])
           /\ out = _core_rule_ids(SelectSeq(lits, LAMBDA l : MatchesEnable(l, d)), d)

\* a core list with a literal matched only by name, a literal matched by
\* nothing and a second literal of the same rule, before a literal of another rule
C20_Witness ==
    /\ pc = "done"
    /\ call[1].enables = << [rid |-> "b", var |-> Object(2)], [rid |-> "a", var |-> Object(1)] >>
    /\ call[1].core_lits = << Object(3), Object(4), Object(1) >>
    /\ ret[1] = << "a" >>

\* the second of two calls has returned; First is the result of the first
SecondReturned == AssignReturned /\ ret # None
First == ret[1]
Added == call[1].added

\* the rule added for the second call is implied by the other rules of the policy
AddedIsImplied ==
    /\ Added # None
    /\ Solutions(Range(enables) \ {Added[1]}, FALSE) \subseteq Solutions({Added[1]}, FALSE)

\* C14 (as stated): adding a rule implied by the other rules changes neither
\* the matrix nor the objective assign returns.
C14_ImpliedRuleChangesNothing ==
    (SecondReturned /\ AddedIsImplied) =>
        (Res.matrix = First.matrix /\ Res.objective = First.objective)

\* C14 (amended): when the policy is satisfiable on the instance and both
\* calls return OPTIMAL, adding a rule implied by the other rules leaves the
\* objective unchanged and neither call relaxes a rule.
C14_ImpliedRuleKeepsOptimum ==
    (/\ SecondReturned
     /\ AddedIsImplied
     /\ Satisfiable(Range(enables) \ {Added[1]}, FALSE)
     /\ First.solver_status = "OPTIMAL"
     /\ Res.solver_status = "OPTIMAL") =>
        /\ Res.objective = First.objective
        /\ Res.relaxed_rules = << >>
        /\ First.relaxed_rules = << >>

\* a rule that posts constraints and is implied by the rules of a satisfiable
\* policy was added as its third rule, and both calls returned OPTIMAL
C14_Witness ==
    /\ SecondReturned
    /\ AddedIsImplied
    /\ posts_constraints(EnabledRule(rules, Added[1]))
    /\ Len(rules) = 3
    /\ Satisfiable(Range(enables) \ {Added[1]}, FALSE)
    /\ First.solver_status = "OPTIMAL"
    /\ Res.solver_status = "OPTIMAL"
    /\ Res.objective = First.objective

\* C15: two calls of assign on the same instance and rules return identical
\* results: the same matrix, objective, status, unsat_core and relaxed_rules.
C15_SameResultTwice ==
    (SecondReturned /\ Added = None) => Res = First

\* the cells of the days at index >= end_of_month
TailCells(ds) == { c \in {0} \X DayIndices(ds) \X ShiftType : c[2] >= eom(ds) }

\* C19: when end_of_month < len(days), adding or removing an assignment on a
\* day at index >= end_of_month never changes whether a counting rule holds.
C19_TailNeverCounts ==
    (pc = "done" /\ eom(call[1].days) < Len(call[1].days)) =>
        \A c \in TailCells(call[1].days) :
            /\ HoldsCounting(call[1].rule, call[1].days, call[1].X \cup {c}) = ret[1]
            /\ HoldsCounting(call[1].rule, call[1].days, call[1].X \ {c}) = ret[1]

\* C22 (as stated): assign with an empty rules list returns a feasible
\* maximum-coverage result: a matrix, relaxed_rules = [], unsat_core = None and
\* objective = |residents| * |days| * 4.
C22_EmptyPolicyMaximum ==
    (rules = << >> /\ AssignReturned) =>
        /\ Res.matrix # None
        /\ Res.solver_status \in OkStatus
        /\ Res.relaxed_rules = << >>
        /\ Res.unsat_core = None
        /\ Res.objective = Some(NumResidents * NumDays * NumShiftTypes)

\* C22 (amended): with an empty rules list assign makes a single attempt, no
\* trim probe, never ends INFEASIBLE and reports relaxed_rules = [] and
\* unsat_core = None; a result with status OPTIMAL has every cell filled and
\* objective |residents| * |days| * 4, and a matrix is returned exactly when
\* the status is OPTIMAL or FEASIBLE.
C22_EmptyPolicy ==
    rules = << >> =>
        /\ attempt = 0
        /\ relaxed = << >>
        /\ first_core = None
        /\ pc # "trim"
        /\ AssignReturned =>
              /\ Res.relaxed_rules = << >>
              /\ Res.unsat_core = None
              /\ Res.solver_status # "INFEASIBLE"
              /\ (Res.matrix # None) <=> (Res.solver_status \in OkStatus)
              /\ Res.solver_status = "OPTIMAL" =>
                    /\ Res.objective = Some(NumResidents * NumDays * NumShiftTypes)
                    /\ \A i \in Residents, j \in Days : Cell(i, j) # ""

C22_Witness ==
    /\ rules = << >>
    /\ AssignReturned
    /\ Res.solver_status = "OPTIMAL"
    /\ Res.objective = Some(4)

(* ---------------- C21 ---------------- *)
\* the call of a rule's apply has returned
Applied(cls) == pc = "done" /\ call # None /\ ret # None /\ call[1].rule.cls = cls

\* the day indices the claim says are blocked for an emergency on day j
C21_BlockedDays(j, ds) ==
    IF 0 < j /\ j < Len(ds) - 1 THEN {j - 1, j, j + 1} ELSE {j}

C23_Half(n) == CHOOSE q \in 0 .. n : 2 * q <= n /\ n < 2 * q + 2
C23_Clip(n) == IF n > 0 THEN n ELSE 0

\* C23: total_number_of_shifts holds for the targeted resident exactly when its
\* assignments on the days before end_of_month number
\* max(0, total - u_count - floor(ut_count / 2)), the counts taken over all days;
\* the required number is never negative.
C23_TotalMinusEmergencies ==
    Applied("TotalNumberOfShifts") =>
        LET c == call[1]
            u_count == Cardinality(c.u_positions)
            ut_count == Cardinality(c.ut_positions)
            required == C23_Clip(c.rule.total - u_count - C23_Half(ut_count))
            assigned == Cardinality({ x \in c.X : x[2] < eom(c.days) })
        IN /\ ~ret[1].raises
           /\ required >= 0
           /\ ret[1].holds <=> (assigned = required)

\* one ut position alone leaves the total as it is
C23_Witness ==
    /\ Applied("TotalNumberOfShifts")
    /\ Cardinality(call[1].ut_positions) = 1
    /\ call[1].u_positions = {}
    /\ call[1].rule.total = 2
    /\ Cardinality({ x \in call[1].X : x[2] < eom(call[1].days) }) = 2
    /\ ret[1].holds

(* ---------------- C24 ---------------- *)
\* C24: no_m_shifts_in_n_days holds for the targeted resident exactly when every
\* window of n_days consecutive days [j, j + n_days), 0 <= j <= len(days) - n_days,
\* has fewer than m_shifts assignments and emergency positions together; n_days
\* larger than len(days), n_days <= 0 or m_shifts <= 0 is a configuration error.
C24_WindowsBelowM ==
    Applied("NoMShiftsInNDays") =>
        LET c == call[1]
            m == c.rule.m_shifts
            n == c.rule.n_days
            len == Len(c.days)
            inWindow(j, d) == j <= d /\ d <= j + n - 1
            load(j) == Cardinality({ x \in c.X : inWindow(j, x[2]) })
                         + Cardinality({ p \in c.u_positions : inWindow(j, p[2]) })
        IN /\ ret[1].raises <=> (n > len \/ n <= 0 \/ m <= 0)
           /\ ~ret[1].raises =>
                 (ret[1].holds <=>
                     \A j \in DayIndices(c.days) : j <= len - n => load(j) + 1 <= m)

\* two-day windows over three days, an emergency on the first day and a shift later
C24_Witness ==
    /\ Applied("NoMShiftsInNDays")
    /\ Len(call[1].days) = 3
    /\ call[1].rule.n_days = 2
    /\ call[1].rule.m_shifts = 2
    /\ call[1].u_positions = { << 0, 0 >> }
    /\ call[1].X # {}
    /\ ~ret[1].raises
    /\ ret[1].holds

(* ---------------- C25 ---------------- *)
\* attempts counted from 0: at most |rules| + 1 of them; probes made: pos - 1
C25_Bounds ==
    pc \in {"assign", "trim", "final"} =>
        /\ attempt = Len(relaxed)
        /\ attempt + 1 <= Len(rules) + 1
        /\ pos - 1 <= Len(relaxed)
        /\ pc = "trim" => (pos <= Len(relaxed) /\ Len(relaxed_sorted) = Len(relaxed))

\* an attempt that loops removes exactly one rule; the trim pass ends in the
\* final solve, and the final solve ends the call
C25_Steps ==
    /\ (pc = "assign" /\ pc' = "assign") =>
          /\ attempt' = attempt + 1
          /\ \E rid \in ActiveNow :
                /\ active_ids' = Some(ActiveNow \ {rid})
                /\ relaxed' = Append(relaxed, rid)
    /\ pc = "trim" => (pos' = pos + 1 /\ pc' \in {"trim", "final"})
    /\ pc = "final" => (pc' = "done" /\ result' # None)
    /\ pc = "done" => pc' = "done"

\* C25: assign terminates: every INFEASIBLE attempt that does not end the call
\* removes exactly one rule from active_ids, the loop makes at most |rules| + 1
\* attempts, the trim pass makes at most one probe per relaxed rule, one final
\* solve follows it, and the call ends (it returns, or the build raises).
C25_Terminates ==
    /\ []C25_Bounds
    /\ [][C25_Steps]_vars
    /\ <>(pc = "done" \/ apply_rules_raises(rules))

\* a call that relaxed a rule, ran the trim pass and returned a matrix
C25_Witness ==
    /\ AssignReturned
    /\ Res.matrix # None
    /\ Res.unsat_core # None

(* ---------------- C26 ---------------- *)
\* C26: at the start of every attempt of the relaxation loop, active_ids and
\* relaxed partition the rule ids of the policy: relaxed has no duplicates, no
\* rule id is in both, every rule id is in one of them.
C26_Partition ==
    (pc = "assign" /\ ~apply_rules_raises(rules)) =>
        /\ IsInjective(relaxed)
        /\ ActiveNow \cap Range(relaxed) = {}
        /\ ActiveNow \cup Range(relaxed) = { rule_id(rules[n]) : n \in 1 .. Len(rules) }

\* a later attempt: one rule has been disabled, another is still enabled
C26_Witness ==
    /\ pc = "assign"
    /\ Len(relaxed) = 1
    /\ ActiveNow # {}
    /\ Len(rules) = 3

(* ---------------- C27 ---------------- *)
\* the solver of the call answers as a function of the asserted rule set
Deterministic == asked # None

\* a matrix returned by a call whose loop relaxed a rule, so that the trim pass ran
TrimmedReturn == MatrixReturned /\ Deterministic /\ Res.unsat_core # None

\* restoring r alone: the rules not in relaxed_rules together with r
C27_Restored(r) == (PolicyIds \ Range(Res.relaxed_rules)) \cup {r}

C28_FinalSolveSucceeds ==
    Deterministic =>
        /\ pc = "final" => Answers(active_ids[1]) \subseteq OkStatus
        /\ MatrixReturned =>
              /\ Res.solver_status \in OkStatus
              /\ \E X \in Solutions(PolicyIds \ Range(Res.relaxed_rules), FALSE) :
                    /\ Res.matrix = Some(_extract_matrix(X))
                    /\ Res.objective = Some(ObjectiveValue(X))

\* a trimmed result of a call in which a probe stopped with UNKNOWN
C28_Witness ==
    /\ TrimmedReturn
    /\ ~definite
    /\ Res.relaxed_rules # << >>
    /\ Res.solver_status \in OkStatus

(* ---------------- C29 ---------------- *)
\* position of a rule id in the policy
C29_PolicyIndex(rid) ==
    CHOOSE n \in 1 .. Len(rules) :
        rule_id(rules[n]) = rid /\ \A m \in 1 .. (n - 1) : rule_id(rules[m]) # rid

\* rr is what the claim says of relaxed_rules: rules disabled in the loop, no more
\* than at the peak and fewer when the trim pass re-enabled one, exactly the
\* policy rules not in the final active_ids, in policy order
C29_Trimmed(rr) ==
    /\ Range(rr) \subseteq Range(relaxed)
    /\ Len(rr) <= Len(relaxed)
    /\ (Range(relaxed) \cap active_ids[1] # {}) => Len(rr) < Len(relaxed)
    /\ Range(rr) = PolicyIds \ active_ids[1]
    /\ \A a, b \in 1 .. Len(rr) :
          a < b => C29_PolicyIndex(rr[a]) < C29_PolicyIndex(rr[b])

\* the step of the final solve returns a matrix
C29_ReturnsMatrix == pc = "final" /\ result' # None /\ result'[1].matrix # None

\* C29 (as claimed): the relaxed_rules of every result with a matrix is the
\* trimmed list in policy order.
C29_AlwaysTrimmed ==
    [][C29_ReturnsMatrix => C29_Trimmed(result'[1].relaxed_rules)]_vars

\* C29 (amended): the relaxed_rules of a result with a matrix is the trimmed
\* list in policy order when the final solve ended OPTIMAL or FEASIBLE (always
\* so when no solve of the call stopped with UNKNOWN); otherwise it is the whole
\* relaxed list of the loop, in the order the rules were relaxed.
C29_TrimmedOrUntrimmed ==
    [][C29_ReturnsMatrix =>
          /\ C29_Trimmed(result'[1].relaxed_rules) \/ result'[1].relaxed_rules = relaxed
          /\ definite' => C29_Trimmed(result'[1].relaxed_rules)]_vars

\* before the final solve: two rules stay relaxed, relaxed in another order than
\* the policy lists them
C29_Witness ==
    /\ pc = "final"
    /\ Len(relaxed) = 2
    /\ Range(relaxed) \cap active_ids[1] = {}
    /\ C29_PolicyIndex(relaxed[2]) < C29_PolicyIndex(relaxed[1])

(* ---------------- C30 ---------------- *)
\* the returned matrix shows the valuation X: "" where no variable of the cell is
\* 1, else the name of the lowest-ordinal shift type whose variable is 1
C30_Shows(X) ==
    \A i \in Residents, j \in Days :
        LET on == { k \in ShiftType : << i, j, k >> \in X }
        IN IF on = {} THEN Cell(i, j) = ""
           ELSE \E k \in on : Cell(i, j) = ShiftName[k] /\ \A o \in on : o >= k

C30_NonEmptyCells ==
    Cardinality({ c \in Residents \X Days : Cell(c[1], c[2]) # "" })

\* C30: the returned matrix has one row per resident and one cell per day, each
\* cell in {"", R, G, T, M}; it shows a solution of the rules left enabled, each
\* cell the lowest-ordinal shift type whose variable is 1, and the objective is
\* the number of variables that are 1; when one_shift_per_day is in the policy
\* and not in relaxed_rules the objective is the number of non-empty cells.
C30_MatrixAndObjective ==
    MatrixReturned =>
        /\ Len(Res.matrix[1]) = NumResidents
        /\ \A i \in Residents :
              /\ Len(Res.matrix[1][i + 1]) = NumDays
              /\ \A j \in Days : Cell(i, j) \in {"", "R", "G", "T", "M"}
        /\ \E X \in Solutions(PolicyIds \ Range(Res.relaxed_rules), FALSE) :
              C30_Shows(X) /\ Res.objective = Some(Cardinality(X))
        /\ ("one_shift_per_day" \in PolicyIds \ Range(Res.relaxed_rules)) =>
              Res.objective = Some(C30_NonEmptyCells)

\* one_shift_per_day enforced: one shift, one non-empty cell, objective 1
C30_Witness ==
    /\ MatrixReturned
    /\ "one_shift_per_day" \in PolicyIds \ Range(Res.relaxed_rules)
    /\ Res.objective = Some(1)
    /\ Cell(0, 0) # ""

(* ======================= specifications ======================= *)
NextAssign ==
    \/ AttemptFeasible
    \/ AttemptUnknown
    \/ AttemptInfeasible
    \/ TrimProbe
    \/ FinalSolve

NextValidate ==
    \/ ValidateSolve
    \/ ShrinkStep

Next == NextAssign \/ NextValidate

Spec == Init /\ [][NextAssign]_vars
\* assign runs its loop to the end: every step that can be taken is taken
SpecFair == InitFair /\ [][NextAssign]_vars /\ WF_vars(NextAssign)
SpecDeterministic == InitDeterministic /\ [][NextAssign]_vars
SpecValidate == InitValidate /\ [][NextValidate]_vars
SpecMalformed == InitMalformed /\ [][Next]_vars

NextTargets == CallTargets
SpecTargets == InitTargets /\ [][NextTargets]_vars

NextCore == CallCore
SpecCore == InitCore /\ [][NextCore]_vars

NextCounting == CallApply
SpecCounting == InitCounting /\ [][NextCounting]_vars

NextPositions == CallApplyPositions
SpecBlock == InitBlock /\ [][NextPositions]_vars
SpecTotal == InitTotal /\ [][NextPositions]_vars
SpecWindow == InitWindow /\ [][NextPositions]_vars

NextTwice == NextAssign \/ RunAgain \/ RunWithAddedRule
SpecTwice == InitTwice /\ [][NextTwice]_vars

NextFiltered == NextAssign \/ BuildRaises
SpecFiltered == InitFiltered /\ [][NextFiltered]_vars

====
